---- MODULE Spec2Model ----
(***************************************************************************)
(* tsutils-drop-av: the MPEG-2 TS packet framer, the packet decoder, the   *)
(* PAT and PMT section parsers and the A/V-dropping driver drop_av.        *)
(*                                                                         *)
(* Bytes are naturals 0..255, a byte slice is a sequence of bytes.  Rust   *)
(* indexes from 0, TLA+ sequences from 1: At(s, i) is the Rust s[i].       *)
(* An index past the end of a slice makes the Rust code panic; every       *)
(* operator that reads a slice reports that outcome instead of a value.    *)
(***************************************************************************)
EXTENDS Naturals, Sequences, FiniteSets, TLC

\* ------------------------------------------------------------------ bounds

\* The reader hands out at most MaxPackets whole packets before end of file.
MaxPackets == 5

\* ------------------------------------------------------------ program constants

\* [u8; 188], the buffer of TsPackets::next.
PacketSize == 188

\* TsPacket::check_sync_byte.
SyncByte == 71

\* ------------------------------------------------------------------ bytes

At(s, i) == s[i + 1]

\* &s[from..]; the caller has checked from <= Len(s).
SliceFrom(s, from) == SubSeq(s, from + 1, Len(s))

\* &s[from..to]; the caller has checked from <= to <= Len(s).
Slice(s, from, to) == SubSeq(s, from + 1, to)

\* (b & (1 << k)) != 0
Bit(b, k) == (b \div (2 ^ k)) % 2 = 1

\* b & ((1 << k) - 1)
Low(b, k) == b % (2 ^ k)

RECURSIVE Flatten(_)
Flatten(ss) == IF ss = << >> THEN << >> ELSE Head(ss) \o Flatten(Tail(ss))

Fill(n, b) == [i \in 1..n |-> b]

\* let x = v; F(x): v is evaluated once, and F on its value.
Let(v, F(_)) == CHOOSE r \in { F(x) : x \in {v} } : TRUE

\* Option<T>
None == [some |-> FALSE]
Some(v) == [some |-> TRUE, val |-> v]

\* ------------------------------------------------------------ packet decoder

\* AdaptationFieldExtension::new: the extension's declared length, or a panic
\* when a sub-field lies past the end of the slice.  The index after the
\* optional LegalTimeWindow (2 bytes), piecewise_rate (3) and SeamlessSplice (5).
ExtensionChecks(packet, ltw_flag, piecewise_rate_flag, seamless_splice_flag, i1, i2, i3) ==
    \* LegalTimeWindow::new(&packet[2..]) reads bytes 0 and 1
    IF ltw_flag /\ 3 >= Len(packet) THEN [panic |-> TRUE]
    \* packet[index], packet[index + 1]
    ELSE IF piecewise_rate_flag /\ i1 + 1 >= Len(packet) THEN [panic |-> TRUE]
    \* SeamlessSplice::new(&packet[index..]) reads bytes 0, 1 and 2
    ELSE IF seamless_splice_flag /\ i2 + 2 >= Len(packet) THEN [panic |-> TRUE]
    \* trailing_reserved = &packet[index..]
    ELSE IF i3 > Len(packet) THEN [panic |-> TRUE]
    ELSE [panic |-> FALSE, adaptation_field_extension_length |-> At(packet, 0)]

ExtensionFlags(packet, ltw_flag, piecewise_rate_flag, seamless_splice_flag) ==
    ExtensionChecks(packet, ltw_flag, piecewise_rate_flag, seamless_splice_flag,
        2 + (IF ltw_flag THEN 2 ELSE 0),
        2 + (IF ltw_flag THEN 2 ELSE 0) + (IF piecewise_rate_flag THEN 3 ELSE 0),
        2 + (IF ltw_flag THEN 2 ELSE 0) + (IF piecewise_rate_flag THEN 3 ELSE 0)
          + (IF seamless_splice_flag THEN 5 ELSE 0))

AdaptationFieldExtensionNew(packet) ==
    IF Len(packet) < 2 THEN [panic |-> TRUE]
    ELSE ExtensionFlags(packet, Bit(At(packet, 1), 7), Bit(At(packet, 1), 6),
                        Bit(At(packet, 1), 5))

\* The end of AdaptationField::parse: the stuffing range
\* &packet[index..(adaptation_field_length as usize + 1)] and the result.
AdaptationFieldStuffing(packet, adaptation_field_length, flags, index) ==
    IF index > adaptation_field_length + 1 \/ adaptation_field_length + 1 > Len(packet)
    THEN [panic |-> TRUE]
    ELSE [panic |-> FALSE,
          af |-> Some([adaptation_field_length |-> adaptation_field_length,
                       discontinuity_indicator |-> Bit(flags, 5),
                       random_access_indicator |-> Bit(flags, 4),
                       elementary_stream_priority_indicator |-> Bit(flags, 5),
                       transport_private_data_flag |-> Bit(flags, 1)])]

\* The optional extension at index, which then moves on by the declared
\* adaptation_field_extension_length.
AdaptationFieldAfterExtension(packet, adaptation_field_length, flags, index, extension) ==
    IF extension.panic THEN [panic |-> TRUE]
    ELSE AdaptationFieldStuffing(packet, adaptation_field_length, flags,
                                 index + extension.adaptation_field_extension_length)

\* The optional transport_private_data at index: a length byte, then
\* &packet[index..(index + length)].
AdaptationFieldPrivateData(packet, adaptation_field_length, flags, index, length) ==
    IF Bit(flags, 1) /\ index + 1 + length > Len(packet) THEN [panic |-> TRUE]
    ELSE IF Bit(flags, 1)
    THEN AdaptationFieldAfterExtension(packet, adaptation_field_length, flags,
             index + 1 + length,
             IF Bit(flags, 0)
             THEN AdaptationFieldExtensionNew(SliceFrom(packet, index + 1 + length))
             ELSE [panic |-> FALSE, adaptation_field_extension_length |-> 0])
    ELSE AdaptationFieldAfterExtension(packet, adaptation_field_length, flags, index,
             IF Bit(flags, 0)
             THEN AdaptationFieldExtensionNew(SliceFrom(packet, index))
             ELSE [panic |-> FALSE, adaptation_field_extension_length |-> 0])

\* The flags byte: pcr_flag (6 bytes), opcr_flag (6 bytes) and
\* splicing_point_flag (1 byte) move the index on from 2.
AdaptationFieldFlags(packet, adaptation_field_length, flags, index) ==
    AdaptationFieldPrivateData(packet, adaptation_field_length, flags, index,
                               IF Bit(flags, 1) THEN At(packet, index) ELSE 0)

\* AdaptationField::parse on &packet[4..]: None for a zero length, the field
\* otherwise, or a panic when a declared length leads past the slice or past
\* the field's own end.
AdaptationFieldParse(packet) ==
    IF At(packet, 0) = 0 THEN [panic |-> FALSE, af |-> None]
    ELSE AdaptationFieldFlags(packet, At(packet, 0), At(packet, 1),
             2 + (IF Bit(At(packet, 1), 4) THEN 6 ELSE 0)
               + (IF Bit(At(packet, 1), 3) THEN 6 ELSE 0)
               + (IF Bit(At(packet, 1), 2) THEN 1 ELSE 0))

\* The end of TsPacket::new: index is 4, moved on by the adaptation field
\* (adaptation_field_length + 1, or 1 for a zero length); data_bytes is
\* &packet[index..] when adaptation_field_control is 0b01 or 0b11.
TsPacketFields(packet, adaptation_field_control, parsed) ==
    IF parsed.panic THEN [panic |-> TRUE]
    ELSE
    LET index == IF adaptation_field_control \notin {2, 3} THEN 4
                 ELSE IF parsed.af.some
                      THEN 4 + parsed.af.val.adaptation_field_length + 1
                      ELSE 4 + 1
        hasData == adaptation_field_control \in {1, 3}
    IN  IF hasData /\ index > Len(packet) THEN [panic |-> TRUE]
        ELSE [panic |-> FALSE,
              sync_byte |-> At(packet, 0),
              transport_error_indicator |-> Bit(At(packet, 1), 7),
              payload_unit_start_indicator |-> Bit(At(packet, 1), 6),
              transport_priority |-> Bit(At(packet, 1), 5),
              pid |-> Low(At(packet, 1), 5) * 256 + At(packet, 2),
              transport_scrambling_control |-> At(packet, 3) \div 64,
              adaptation_field_control |-> adaptation_field_control,
              continuity_counter |-> Low(At(packet, 3), 4),
              adaptation_field |-> parsed.af,
              data_bytes |-> IF hasData THEN Some(SliceFrom(packet, index)) ELSE None]

\* TsPacket::new on a 188-byte buffer: the decoded packet, or a panic.
TsPacketNew(packet) ==
    TsPacketFields(packet, (At(packet, 3) \div 16) % 4,
        IF (At(packet, 3) \div 16) % 4 \in {2, 3}
        THEN AdaptationFieldParse(SliceFrom(packet, 4))
        ELSE [panic |-> FALSE, af |-> None])

\* TsPacket::check_sync_byte
CheckSyncByte(packet) == packet.sync_byte = SyncByte

\* ------------------------------------------------------------ PSI parsers

\* Result<_, psi::ParseError>, or the panic of an out-of-range index or of an
\* unsigned subtraction below zero (which ends in a panic in every build: the
\* wrapped value bounds a loop that then indexes past the end of the payload).
Panic == [kind |-> "panic"]
IncorrectTableId(expected, actual) ==
    [kind |-> "err", error |-> "IncorrectTableId", expected |-> expected, actual |-> actual]
IncorrectSectionSyntaxIndicator ==
    [kind |-> "err", error |-> "IncorrectSectionSyntaxIndicator"]

\* The program loop of ProgramAssociationTable::parse, entries i..n-1, on the
\* HashMap program_map (insert overwrites an existing key).
RECURSIVE PatProgramLoop(_, _, _, _)
PatProgramLoop(payload, i, n, program_map) ==
    IF i >= n THEN [panic |-> FALSE, program_map |-> program_map]
    ELSE
    LET index == 8 + i * 4 IN
    IF index + 3 >= Len(payload) THEN [panic |-> TRUE]
    ELSE
    LET program_number == At(payload, index) * 256 + At(payload, index + 1)
        pid == Low(At(payload, index + 2), 5) * 256 + At(payload, index + 3)
    IN  IF program_number = 0
        THEN PatProgramLoop(payload, i + 1, n, program_map)
        ELSE PatProgramLoop(payload, i + 1, n,
                 [q \in (DOMAIN program_map) \cup {pid} |->
                     IF q = pid THEN program_number ELSE program_map[q]])

\* The number of program entries ProgramAssociationTable::parse reads.
PatEntryCount(section_length) == (section_length - 5) \div 4

\* ProgramAssociationTable::parse
PatParse(payload0) ==
    IF Len(payload0) = 0 THEN Panic
    ELSE
    LET pointer_field == At(payload0, 0) IN
    IF 1 + pointer_field > Len(payload0) THEN Panic
    ELSE
    LET payload == SliceFrom(payload0, 1 + pointer_field) IN
    IF Len(payload) < 1 THEN Panic
    ELSE IF At(payload, 0) # 0 THEN IncorrectTableId(0, At(payload, 0))
    ELSE IF Len(payload) < 2 THEN Panic
    ELSE IF ~Bit(At(payload, 1), 7) THEN IncorrectSectionSyntaxIndicator
    ELSE IF Len(payload) < 8 THEN Panic
    ELSE
    LET section_length == Low(At(payload, 1), 4) * 256 + At(payload, 2) IN
    IF section_length < 5 THEN Panic
    ELSE
    LET n == PatEntryCount(section_length)
        loop == PatProgramLoop(payload, 0, n, << >>)
        index == 8 + n * 4
    IN  IF loop.panic \/ index + 3 >= Len(payload) THEN Panic
        ELSE [kind |-> "ok",
              table_id |-> At(payload, 0),
              transport_stream_id |-> At(payload, 3) * 256 + At(payload, 4),
              version_number |-> (At(payload, 5) \div 2) % 32,
              current_next_indicator |-> Bit(At(payload, 5), 0),
              section_number |-> At(payload, 6),
              last_section_number |-> At(payload, 7),
              program_map |-> loop.program_map,
              crc32 |-> Slice(payload, index, index + 4)]

\* EsInfo::new on &payload[index..]
EsInfoNew(payload) ==
    IF Len(payload) < 5 THEN [panic |-> TRUE]
    ELSE
    LET stream_type == At(payload, 0)
        elementary_pid == Low(At(payload, 1), 5) * 256 + At(payload, 2)
        es_info_length == Low(At(payload, 3), 4) * 256 + At(payload, 4)
    IN  IF 5 + es_info_length > Len(payload) THEN [panic |-> TRUE]
        ELSE [panic |-> FALSE,
              stream_type |-> stream_type,
              elementary_pid |-> elementary_pid,
              descriptor |-> Slice(payload, 5, 5 + es_info_length)]

\* The size of an entry without its descriptors.
EsInfoSizeHeaderOnly(info) == 5

\* EsInfo::size
EsInfoSize(info) == 5 + Len(info.descriptor)

\* The ES loop of ProgramMapTable::parse: while index < limit.
RECURSIVE PmtEsLoop(_, _, _, _)
PmtEsLoop(payload, index, limit, es_info) ==
    IF ~(index < limit) THEN [panic |-> FALSE, es_info |-> es_info]
    ELSE IF index > Len(payload) THEN [panic |-> TRUE]
    ELSE
    Let(EsInfoNew(SliceFrom(payload, index)), LAMBDA info :
        IF info.panic THEN [panic |-> TRUE]
        ELSE PmtEsLoop(payload, index + EsInfoSize(info), limit,
                       Append(es_info, [stream_type |-> info.stream_type,
                                        elementary_pid |-> info.elementary_pid,
                                        descriptor |-> info.descriptor])))

\* ProgramMapTable::parse
PmtParse(payload0) ==
    IF Len(payload0) = 0 THEN Panic
    ELSE
    LET pointer_field == At(payload0, 0) IN
    IF 1 + pointer_field > Len(payload0) THEN Panic
    ELSE
    LET payload == SliceFrom(payload0, 1 + pointer_field) IN
    IF Len(payload) < 1 THEN Panic
    ELSE IF At(payload, 0) # 2 THEN IncorrectTableId(2, At(payload, 0))
    ELSE IF Len(payload) < 2 THEN Panic
    ELSE IF ~Bit(At(payload, 1), 7) THEN IncorrectSectionSyntaxIndicator
    ELSE IF Len(payload) < 12 THEN Panic
    ELSE
    LET section_length == Low(At(payload, 1), 4) * 256 + At(payload, 2)
        program_info_length == Low(At(payload, 10), 4) * 256 + At(payload, 11)
    IN
    IF 12 + program_info_length > Len(payload) THEN Panic
    ELSE IF 3 + section_length < 4 THEN Panic
    ELSE
    LET limit == 3 + section_length - 4
        loop == PmtEsLoop(payload, 12 + program_info_length, limit, << >>)
    IN  IF loop.panic \/ limit + 3 >= Len(payload) THEN Panic
        ELSE [kind |-> "ok",
              table_id |-> At(payload, 0),
              program_number |-> At(payload, 3) * 256 + At(payload, 4),
              version_number |-> (At(payload, 5) \div 2) % 32,
              current_next_indicator |-> Bit(At(payload, 5), 0),
              section_number |-> At(payload, 6),
              last_section_number |-> At(payload, 7),
              pcr_pid |-> Low(At(payload, 8), 5) * 256 + At(payload, 9),
              program_info |-> Slice(payload, 12, 12 + program_info_length),
              es_info |-> loop.es_info,
              crc32 |-> Slice(payload, limit, limit + 4)]

\* ------------------------------------------------------------ input packets

\* The four header bytes of a packet (transport_priority, scrambling control
\* and continuity counter 0).
Header(sync, tei, pusi, pid, afc) ==
    << sync, tei * 128 + pusi * 64 + pid \div 256, pid % 256, afc * 16 >>

\* A packet: the given leading bytes, then 0xFF up to 188 bytes.
Pad(bytes) == bytes \o Fill(PacketSize - Len(bytes), 255)

\* One program entry of a PAT section, one ES entry of a PMT section.
PatEntry(program_number, pid) ==
    << program_number \div 256, program_number % 256, 224 + pid \div 256, pid % 256 >>
EsEntry(stream_type, pid) ==
    << stream_type, 224 + pid \div 256, pid % 256, 240, 0 >>

\* A PSI section after its pointer_field: table_id, syntax indicator and
\* section_length = the bytes after the length field (CRC included).
PatSection(entries, crc) ==
    LET section_length == 5 + Len(entries) + 4
    IN  << 0, 176 + section_length \div 256, section_length % 256, 0, 1, 193, 0, 0 >>
        \o entries \o crc
PmtSection(program_number, entries, crc) ==
    LET section_length == 9 + Len(entries) + 4
    IN  << 2, 176 + section_length \div 256, section_length % 256,
           program_number \div 256, program_number % 256, 193, 0, 0, 226, 0, 240, 0 >>
        \o entries \o crc

\* CRC-32/MPEG-2 of ISO/IEC 13818-1 Annex A, the CRC_32 field of a section:
\* polynomial 0x04C11DB7 (the exponents of its terms below 32), register
\* preset to all ones, bits fed most significant first, no final inversion.
\* The register is a sequence of 32 bits, the most significant first.
CrcPolynomial == {26, 23, 22, 16, 12, 11, 10, 8, 7, 5, 4, 2, 1, 0}

CrcShift(reg, feedback) ==
    [i \in 1..32 |->
        IF i < 32 THEN (reg[i + 1] # (feedback /\ (32 - i) \in CrcPolynomial))
        ELSE feedback]

RECURSIVE CrcByte(_, _, _)
CrcByte(reg, byte, k) ==
    IF k = 0 THEN reg
    ELSE Let(CrcShift(reg, reg[1] # Bit(byte, k - 1)),
             LAMBDA shifted : CrcByte(shifted, byte, k - 1))

RECURSIVE CrcBytes(_, _)
CrcBytes(reg, bytes) ==
    IF bytes = << >> THEN reg
    ELSE Let(CrcByte(reg, Head(bytes), 8), LAMBDA r : CrcBytes(r, Tail(bytes)))

RECURSIVE BitsValue(_)
BitsValue(bits) ==
    IF bits = << >> THEN 0
    ELSE 2 * BitsValue(SubSeq(bits, 1, Len(bits) - 1))
         + (IF bits[Len(bits)] THEN 1 ELSE 0)

\* The four CRC_32 bytes of a section's bytes, in transmission order.
Crc32(bytes) ==
    Let(CrcBytes([i \in 1..32 |-> TRUE], bytes),
        LAMBDA reg : [b \in 1..4 |-> BitsValue(SubSeq(reg, 8 * b - 7, 8 * b))])

\* The PIDs of the input packets: the PMT on 0x0100, elementary streams on
\* 0x0200, 0x0201 and 0x0300, the null PID 0x1FFF.
Pids == [pmt |-> 256, video |-> 512, video2 |-> 513, data |-> 768, null |-> 8191]
PmtPid == Pids.pmt
VideoPid == Pids.video
Video2Pid == Pids.video2
DataPid == Pids.data
NullPid == Pids.null

\* PAT: program 1 -> PID 0x0100, with the section's CRC-32/MPEG-2.
PatPacket ==
    Pad(Header(SyncByte, 0, 1, 0, 1) \o <<0>>
        \o PatSection(PatEntry(1, PmtPid), <<232, 249, 94, 125>>))

\* PMT of program 1: 0x1B on 0x0200, 0x06 on 0x0300, 0x02 on 0x0201.
PmtPacketA ==
    Pad(Header(SyncByte, 0, 1, PmtPid, 1) \o <<0>>
        \o PmtSection(1, EsEntry(27, VideoPid) \o EsEntry(6, DataPid) \o EsEntry(2, Video2Pid),
                      <<36, 42, 71, 188>>))

\* PMT of program 1 with the classes the other way round: 0x06 on 0x0200,
\* 0x0F on 0x0300.
PmtPacketB ==
    Pad(Header(SyncByte, 0, 1, PmtPid, 1) \o <<0>>
        \o PmtSection(1, EsEntry(6, VideoPid) \o EsEntry(15, DataPid), <<251, 141, 9, 34>>))

\* PMT on 0x0100 that names program 2: 0x1B on 0x0200.
PmtPacket2 ==
    Pad(Header(SyncByte, 0, 1, PmtPid, 1) \o <<0>>
        \o PmtSection(2, EsEntry(27, VideoPid), <<90, 39, 251, 157>>))

\* The start of a PES packet on 0x0200, a continuation packet on 0x0300.
VideoPacket == Pad(Header(SyncByte, 0, 1, VideoPid, 1) \o <<0, 0, 1, 224>>)
DataPacket == Pad(Header(SyncByte, 0, 0, DataPid, 1) \o <<1, 2, 3>>)

\* Packets the driver rejects: a wrong sync byte, transport_error_indicator,
\* 188 bytes of 0xFF (wrong sync byte, adaptation_field_length 255), and a
\* payload_unit_start_indicator on an adaptation-field-only packet.
BadSyncPacket == Pad(Header(72, 0, 0, NullPid, 1))
TeiPacket == Pad(Header(SyncByte, 1, 0, NullPid, 1))
GarbagePacket == Fill(PacketSize, 255)
PusiNoDataPacket == Pad(Header(SyncByte, 0, 1, NullPid, 2) \o <<0>>)

PacketMenu ==
    { PatPacket, PmtPacketA, PmtPacketB, PmtPacket2, VideoPacket, DataPacket,
      BadSyncPacket, TeiPacket, GarbagePacket, PusiNoDataPacket }

\* The packets of the sources of FairSpec.
FewPackets == { PatPacket, PmtPacketA, VideoPacket, GarbagePacket }

\* Residual bytes (fewer than a packet) the reader may hold at end of file.
TailSizes == {0, 100}

\* The writers: one that takes every byte offered (a file, a Vec<u8>), and
\* byte slices (&mut [u8]) of these lengths, whose write copies what still
\* fits and returns that count.
SliceSizes == {100}
Writers ==
    { [limited |-> FALSE, room |-> 0] }
    \cup { [limited |-> TRUE, room |-> c] : c \in SliceSizes }

\* ------------------------------------------------------------ the driver

VARIABLES
    input,       \* the whole packets the reader has handed out so far
    eof,         \* the reader has reported end of file
    tail,        \* the bytes (fewer than a packet) the reader held at end of file
    count,       \* the items TsPackets::next has yielded
    buf,         \* the item of the current iteration
    packet,      \* the decoded packet of the current iteration (header fields)
    pat,         \* Option<ProgramAssociationTable>
    payloads,    \* HashMap<u16, Vec<u8>>
    av_pids,     \* HashSet<u16>
    nonav_pids,  \* HashSet<u16>
    out,         \* the bytes the writer has accepted, one chunk per write call
    writer,      \* the writer: whether its room is limited, and the room left
    pc,          \* "next", "body", "write" within the loop, "exit" after it
    ret,         \* the outcome of drop_av once pc = "exit"
    written,     \* history: for each chunk of out, the index in input of its packet
    avSince,     \* history: for each PID of av_pids, the index of the packet whose
                 \*          processing inserted it
    call         \* a call of the decoder or of a parser on its own: the function,
                 \* its argument and, once it has returned, its result

vars == << input, eof, tail, count, buf, packet, pat, payloads, av_pids, nonav_pids,
           out, writer, pc, ret, written, avSince, call >>

Running == [kind |-> "running"]

\* No call of a function on its own: the state of call while drop_av runs.
NoCall == [fn |-> "none"]
Ok == [kind |-> "Ok"]
Err(error, what) == [kind |-> "Err", error |-> error, what |-> what]
Panicked == [kind |-> "Panic"]

\* Every failure of read_exact, UnexpectedEof included, is yielded as an error.
TsPacketsNextEofIsError(read) ==
    CASE read.kind = "ok" -> Some([ok |-> TRUE, buf |-> read.bytes])
      [] OTHER -> Some([ok |-> FALSE])

\* TsPackets::next: the iterator's item for the outcome of read_exact.
\* read_exact fills the buffer ("ok"), or fails with UnexpectedEof when the
\* source ends first ("eof"), or fails with another error ("io").
TsPacketsNext(read) ==
    CASE read.kind = "ok" -> Some([ok |-> TRUE, buf |-> read.bytes])
      [] read.kind = "eof" -> None
      [] OTHER -> Some([ok |-> FALSE])

\* What read_exact can return for the reader's next 188 bytes, the whole
\* packets of the source drawn from menu.
ReadOutcomes(menu) ==
    (IF Len(input) < MaxPackets
     THEN { [kind |-> "ok", bytes |-> p] : p \in menu } ELSE {})
    \cup { [kind |-> "eof", left |-> t] : t \in TailSizes }
    \cup { [kind |-> "io"] }

\* The outcome of the iterator's item in the driver:
\* for buf in ts_packets(reader) { let buf = try!(buf); ...
ForItem(read, item) ==
    /\ input' = IF read.kind = "ok" THEN Append(input, read.bytes) ELSE input
    /\ eof' = (read.kind = "eof")
    /\ tail' = IF read.kind = "eof" THEN read.left ELSE tail
    /\ IF ~item.some
       THEN /\ pc' = "exit"
            /\ ret' = Ok
            /\ UNCHANGED << count, buf >>
       ELSE IF ~item.val.ok
       THEN /\ pc' = "exit"
            /\ ret' = Err("Io", "read")
            /\ UNCHANGED << count, buf >>
       ELSE /\ pc' = "body"
            /\ buf' = item.val.buf
            /\ count' = count + 1
            /\ UNCHANGED ret

ForNextFrom(menu) ==
    /\ pc = "next"
    /\ \E read \in ReadOutcomes(menu) : ForItem(read, TsPacketsNext(read))
    /\ UNCHANGED << packet, pat, payloads, av_pids, nonav_pids, out, writer,
                    written, avSince, call >>

ForNext == ForNextFrom(PacketMenu)

\* H.264 video (0x1b) is missing from the match.
IsAvStreamTypeNoH264(stream_type) == stream_type \in {15, 2}

\* The match on es.stream_type: 0x0f audio, 0x02 | 0x1b video.
IsAvStreamType(stream_type) == stream_type \in {15, 2, 27}

\* Only av_pids is consulted before an ES entry is classified.
UnclassifiedAvOnly(pid, av, nonav) == pid \notin av

\* An ES entry is classified only when its PID is in neither set.
Unclassified(pid, av, nonav) == pid \notin av /\ pid \notin nonav

\* for es in pmt.es_info { ... } on the two sets.
RECURSIVE ClassifyEs(_, _, _)
ClassifyEs(es_info, av, nonav) ==
    IF es_info = << >> THEN [av |-> av, nonav |-> nonav]
    ELSE
    LET es == Head(es_info) IN
    IF Unclassified(es.elementary_pid, av, nonav)
    THEN IF IsAvStreamType(es.stream_type)
         THEN ClassifyEs(Tail(es_info), av \cup {es.elementary_pid}, nonav)
         ELSE ClassifyEs(Tail(es_info), av, nonav \cup {es.elementary_pid})
    ELSE ClassifyEs(Tail(es_info), av, nonav)

\* The program_number of the PMT is never compared with the PAT's.
InconsistentNever(pmt_program_number, program_number) == FALSE

\* pmt.program_number != program_number
Inconsistent(pmt_program_number, program_number) == pmt_program_number # program_number

\* What the consumed section leaves: the pat and the two sets.
Continue(curPat, av, nonav) ==
    [kind |-> "continue", pat |-> curPat, av |-> av, nonav |-> nonav]

\* A PAT that fails to parse is passed over: no PAT is installed and the loop
\* goes on.
InstallPatIgnoringErrors(parsed, av, nonav) ==
    CASE parsed.kind = "panic" -> Panicked
      [] parsed.kind = "err" -> Continue(None, av, nonav)
      [] OTHER -> Continue(Some(parsed), av, nonav)

\* pat = Some(try!(ProgramAssociationTable::parse(payload)))
InstallPat(parsed, av, nonav) ==
    CASE parsed.kind = "panic" -> Panicked
      [] parsed.kind = "err" -> Err("PsiParseError", parsed.error)
      [] OTHER -> Continue(Some(parsed), av, nonav)

\* let pmt = try!(ProgramMapTable::parse(payload)), the program_number
\* check and the classification of its ES entries.
ApplyPmt(pmt, program_number, curPat, av, nonav) ==
    CASE pmt.kind = "panic" -> Panicked
      [] pmt.kind = "err" -> Err("PsiParseError", pmt.error)
      [] OTHER ->
           IF Inconsistent(pmt.program_number, program_number)
           THEN Err("Custom", "Inconsistent program_number")
           ELSE Continue(curPat, ClassifyEs(pmt.es_info, av, nonav).av,
                         ClassifyEs(pmt.es_info, av, nonav).nonav)

\* The section of a PID that has a buffer, consumed at a packet with
\* payload_unit_start_indicator: the new pat and sets, or the failure.
ConsumeSection(pid, payload, curPat, av, nonav) ==
    IF pid = 0 THEN Let(PatParse(payload), LAMBDA parsed : InstallPat(parsed, av, nonav))
    ELSE IF ~curPat.some THEN Continue(curPat, av, nonav)
    ELSE IF pid \notin DOMAIN curPat.val.program_map THEN Continue(curPat, av, nonav)
    ELSE Let(PmtParse(payload), LAMBDA pmt :
             ApplyPmt(pmt, curPat.val.program_map[pid], curPat, av, nonav))

\* payloads.insert(pid, bytes)
Insert(map, pid, bytes) ==
    [q \in (DOMAIN map) \cup {pid} |-> IF q = pid THEN bytes ELSE map[q]]

\* Lines 110-115: after the section is consumed the packet's data_bytes start
\* the PID's buffer afresh; without data_bytes the transform fails.
StartBuffer(p, bufs, consumed) ==
    IF consumed.kind # "continue" THEN consumed
    ELSE IF ~p.data_bytes.some
    THEN Err("Custom", "payload_unit_start_indicator is set, but no data_bytes")
    ELSE [kind |-> "continue", pat |-> consumed.pat, av |-> consumed.av,
          nonav |-> consumed.nonav, pid |-> p.pid,
          payloads |-> Insert(bufs, p.pid, p.data_bytes.val)]

\* Lines 117-126: without payload_unit_start_indicator the data_bytes, if any,
\* are appended to the PID's buffer, or start it when there is none.
AppendBuffer(p, bufs) ==
    IF ~p.data_bytes.some THEN bufs
    ELSE IF p.pid \in DOMAIN bufs
    THEN Insert(bufs, p.pid, bufs[p.pid] \o p.data_bytes.val)
    ELSE Insert(bufs, p.pid, p.data_bytes.val)

\* Lines 58-127 for the decoded packet p.
ProcessDecoded(p, curPat, bufs, av, nonav) ==
    IF p.panic THEN Panicked
    ELSE IF ~CheckSyncByte(p) THEN Err("Custom", "sync_byte failed")
    ELSE IF p.transport_error_indicator
    THEN Err("Custom", "transport_error_indicator is set")
    ELSE IF p.payload_unit_start_indicator
    THEN Let(IF p.pid \in DOMAIN bufs
             THEN ConsumeSection(p.pid, bufs[p.pid], curPat, av, nonav)
             ELSE Continue(curPat, av, nonav),
             LAMBDA consumed : StartBuffer(p, bufs, consumed))
    ELSE [kind |-> "continue", pat |-> curPat, av |-> av, nonav |-> nonav,
          pid |-> p.pid, payloads |-> AppendBuffer(p, bufs)]

\* The loop body up to the write: decode, the two framing checks, the section
\* consumed at a payload_unit_start_indicator, the reassembly buffers.
ProcessPacket(b, curPat, bufs, av, nonav) ==
    Let(TsPacketNew(b), LAMBDA p : ProcessDecoded(p, curPat, bufs, av, nonav))

\* The state after lines 57-127 with outcome r.
BodyOutcome(r) ==
    IF r.kind = "continue"
    THEN /\ pc' = "write"
         /\ packet' = [pid |-> r.pid]
         /\ pat' = r.pat
         /\ payloads' = r.payloads
         /\ av_pids' = r.av
         /\ nonav_pids' = r.nonav
         /\ avSince' = [q \in r.av |-> IF q \in av_pids THEN avSince[q] ELSE count]
         /\ UNCHANGED ret
    ELSE /\ pc' = "exit"
         /\ ret' = r
         /\ UNCHANGED << packet, pat, payloads, av_pids, nonav_pids, avSince >>

\* Lines 57-127 of drop_av for the current item.
Body ==
    /\ pc = "body"
    /\ \E r \in {ProcessPacket(buf, pat, payloads, av_pids, nonav_pids)} : BodyOutcome(r)
    /\ UNCHANGED << input, eof, tail, count, buf, out, writer, written, call >>

\* The filter consults the set of non-A/V PIDs instead of av_pids.
RetainedWrongSet(pid, av) == pid \notin nonav_pids

\* if !av_pids.contains(&packet.pid)
Retained(pid, av) == pid \notin av

\* The count write returns for len bytes offered to writer w.
WriterAccepts(w, len) ==
    IF w.limited /\ w.room < len THEN w.room ELSE len

\* What writer.write(&buf) can return: Ok(n) for the n bytes it accepted, or
\* an error.
WriteOutcomes ==
    { [kind |-> "ok", n |-> WriterAccepts(writer, PacketSize)], [kind |-> "io"] }

\* The bytes that reach the output when write returns Ok(n).
Accepted(b, n) == SubSeq(b, 1, n)

\* Lines 129-131 of drop_av: try!(writer.write(&buf)), the count discarded.
WritePacket ==
    /\ pc = "write"
    /\ IF Retained(packet.pid, av_pids)
       THEN \E w \in WriteOutcomes :
               IF w.kind = "ok"
               THEN /\ out' = Append(out, Accepted(buf, w.n))
                    /\ written' = Append(written, count)
                    /\ writer' = IF writer.limited
                                 THEN [writer EXCEPT !.room = @ - w.n] ELSE writer
                    /\ pc' = "next"
                    /\ UNCHANGED ret
               ELSE /\ pc' = "exit"
                    /\ ret' = Err("Io", "write")
                    /\ UNCHANGED << out, written, writer >>
       ELSE /\ pc' = "next"
            /\ UNCHANGED << out, written, writer, ret >>
    /\ UNCHANGED << input, eof, tail, count, buf, packet, pat, payloads, av_pids,
                    nonav_pids, avSince, call >>

DriverInit ==
    /\ input = << >>
    /\ eof = FALSE
    /\ tail = 0
    /\ count = 0
    /\ buf = << >>
    /\ packet = [pid |-> 0]
    /\ pat = None
    /\ payloads = << >>
    /\ av_pids = {}
    /\ nonav_pids = {}
    /\ out = << >>
    /\ writer \in Writers
    /\ pc = "next"
    /\ ret = Running
    /\ written = << >>
    /\ avSince = << >>

Init == DriverInit /\ call = NoCall

Next == ForNext \/ Body \/ WritePacket

Spec == Init /\ [][Next]_vars

\* The same loop on sources made of fewer kinds of packets, with the fairness
\* of a sequential program: drop_av takes its next step whenever it has one.
ForNextFew == ForNextFrom(FewPackets)

NextFew == ForNextFew \/ Body \/ WritePacket

FairSpec == Init /\ [][NextFew]_vars /\ WF_vars(NextFew)

\* Sections the parsers reject: another table_id, the section syntax
\* indicator (bit 7 of the byte after table_id) cleared.
WithTableId(section, table_id) == [section EXCEPT ![1] = table_id]
SyntaxCleared(section) == [section EXCEPT ![2] = @ % 128]

\* A packet with payload_unit_start_indicator on pid: the pointer_field, the
\* bytes it skips, the section, 0xFF stuffing.
PsiPacket(pid, skipped, section) ==
    Pad(Header(SyncByte, 0, 1, pid, 1) \o << Len(skipped) >> \o skipped \o section)

GoodPatSection == PatSection(PatEntry(1, PmtPid), << 232, 249, 94, 125 >>)
GoodPmtSection == PmtSection(1, EsEntry(27, VideoPid), << 0, 0, 0, 0 >>)

\* On PID 0: table_id 0x42; the syntax indicator clear; table_id 0x02 and the
\* syntax indicator clear, after a pointer_field of 2 whose skipped bytes read
\* like the start of a PAT.
PatWrongTableId == PsiPacket(0, << >>, WithTableId(GoodPatSection, 66))
PatSyntaxClear == PsiPacket(0, << >>, SyntaxCleared(GoodPatSection))
PatWrongBoth == PsiPacket(0, << 0, 176 >>, SyntaxCleared(WithTableId(GoodPatSection, 2)))

\* On the PMT PID: table_id 0x00; the syntax indicator clear, after a
\* pointer_field of 2 whose skipped bytes read like the start of a section
\* with another table_id; table_id 0x00 and the syntax indicator clear.
PmtWrongTableId == PsiPacket(PmtPid, << >>, WithTableId(GoodPmtSection, 0))
PmtSyntaxClear == PsiPacket(PmtPid, << 66, 176 >>, SyntaxCleared(GoodPmtSection))
PmtWrongBoth == PsiPacket(PmtPid, << >>, SyntaxCleared(WithTableId(GoodPmtSection, 0)))

\* drop_av on sources made of a good PAT packet and of rejected PAT and PMT
\* packets.
PsiPackets ==
    { PatPacket, PatWrongTableId, PatSyntaxClear, PatWrongBoth,
      PmtWrongTableId, PmtSyntaxClear, PmtWrongBoth }

ForNextPsi == ForNextFrom(PsiPackets)

NextPsi == ForNextPsi \/ Body \/ WritePacket

PsiSpec == Init /\ [][NextPsi]_vars

\* ------------------------------------ the decoder and the parsers on their own

\* The variables of drop_av, which a call of a function on its own leaves alone.
driverVars == << input, eof, tail, count, buf, packet, pat, payloads, av_pids,
                 nonav_pids, out, writer, pc, ret, written, avSince >>

\* The sequences over S of length at most n.
SeqsUpTo(S, n) == UNION { [1..k -> S] : k \in 0..n }

\* The payload a parser is given: the pointer_field, that many bytes before
\* the section, the section, and the bytes after it (0xFF stuffing).
PointerFields == {0, 2}
TrailingSizes == {0, 3, 8}
PsiPayload(pointer_field, section, trailing) ==
    << pointer_field >> \o Fill(pointer_field, 255) \o section \o Fill(trailing, 255)

\* Well-formed PAT sections: at most MaxPatEntries program entries, each a
\* program_number (0 is the network PID entry) and a PID, then the CRC_32 of
\* the section.
MaxPatEntries == 2
PatProgramNumbers == {0, 1, 258}
PatPids == {256, 4660}
PatPrograms ==
    SeqsUpTo([program_number : PatProgramNumbers, pid : PatPids], MaxPatEntries)

WellFormedPat(programs) ==
    Let(Flatten([i \in 1..Len(programs) |->
                    PatEntry(programs[i].program_number, programs[i].pid)]),
        LAMBDA entries : PatSection(entries, Crc32(PatSection(entries, << >>))))

\* The calls of parser fn on a section encoded from the value of: one for
\* each pointer_field and each number of bytes after the section.
SectionCalls(fn, of, section) ==
    { [fn |-> fn, of |-> of, returned |-> FALSE,
       arg |-> PsiPayload(pointer_field, section, trailing)] :
         pointer_field \in PointerFields, trailing \in TrailingSizes }

PatCalls(programsSet) ==
    UNION { Let(WellFormedPat(programs),
                LAMBDA section : SectionCalls("PatParse", programs, section)) :
              programs \in programsSet }

\* Well-formed PMT sections: program_info descriptors, at most MaxEsEntries
\* ES entries, each a stream_type, a PID and its descriptors (ES_info), then
\* the CRC_32 of the section.  The descriptor bytes read like the start of an
\* ES entry.
MaxEsEntries == 2
EsStreamTypes == {2, 6}
EsPids == {512, 4660}
Descriptors == { << >>, << 27, 225, 0 >> }
EsEntries ==
    SeqsUpTo([stream_type : EsStreamTypes, elementary_pid : EsPids,
              descriptor : Descriptors], MaxEsEntries)

\* One ES entry with its descriptors: es_info_length in 12 bits after 4
\* reserved bits.
EsEntryWith(es) ==
    << es.stream_type, 224 + es.elementary_pid \div 256, es.elementary_pid % 256,
       240 + Len(es.descriptor) \div 256, Len(es.descriptor) % 256 >> \o es.descriptor

\* A PMT section of program 1 with PCR_PID 0x0200, without its CRC_32.
PmtSectionWith(program_info, entries) ==
    LET section_length == 9 + Len(program_info) + Len(entries) + 4
    IN  << 2, 176 + section_length \div 256, section_length % 256,
           0, 1, 193, 0, 0, 226, 0,
           240 + Len(program_info) \div 256, Len(program_info) % 256 >>
        \o program_info \o entries

WellFormedPmt(program_info, es) ==
    Let(PmtSectionWith(program_info, Flatten([i \in 1..Len(es) |-> EsEntryWith(es[i])])),
        LAMBDA section : section \o Crc32(section))

PmtCalls(esSet) ==
    UNION { Let(WellFormedPmt(program_info, es),
                LAMBDA section :
                    SectionCalls("PmtParse", [program_info |-> program_info, es |-> es],
                                 section)) :
              program_info \in Descriptors, es \in esSet }

\* 188-byte buffers for the decoder: every adaptation_field_control, lengths
\* of the adaptation field from none to more than the packet holds, flag
\* bytes (none, PCR, OPCR and splicing point, private data, extension, all),
\* a value for the byte after the flags (the length of the private data or
\* of the extension when that is the first sub-field) and the value of all
\* the bytes after it (stuffing, payload).
AdaptationFieldControls == 0..3
AdaptationFieldLengths == {0, 1, 7, 20, 183, 184, 255}
FlagBytes == {0, 16, 12, 2, 1, 255}
LengthBytes == {0, 5, 200}
FillBytes == {0, 255}

DecoderBuffer(c) ==
    Header(SyncByte, 0, 0, NullPid, c.adaptation_field_control)
    \o << c.adaptation_field_length, c.flags, c.length >>
    \o Fill(PacketSize - 7, c.fill)

DecoderCalls ==
    { [fn |-> "TsPacketNew", of |-> c, returned |-> FALSE, arg |-> DecoderBuffer(c)] :
        c \in [adaptation_field_control : AdaptationFieldControls,
               adaptation_field_length : AdaptationFieldLengths,
               flags : FlagBytes, length : LengthBytes, fill : FillBytes] }

Returned(result) ==
    [fn |-> call.fn, of |-> call.of, arg |-> call.arg, returned |-> TRUE,
     result |-> result]

\* ProgramAssociationTable::parse(call.arg)
CallPatParse ==
    /\ call.fn = "PatParse"
    /\ ~call.returned
    /\ call' = Returned(PatParse(call.arg))
    /\ UNCHANGED driverVars

\* ProgramMapTable::parse(call.arg)
CallPmtParse ==
    /\ call.fn = "PmtParse"
    /\ ~call.returned
    /\ call' = Returned(PmtParse(call.arg))
    /\ UNCHANGED driverVars

\* TsPacket::new(call.arg)
CallTsPacketNew ==
    /\ call.fn = "TsPacketNew"
    /\ ~call.returned
    /\ call' = Returned(TsPacketNew(call.arg))
    /\ UNCHANGED driverVars

ParseInit ==
    /\ DriverInit
    /\ ~writer.limited
    /\ call \in PatCalls(PatPrograms) \cup PmtCalls(EsEntries) \cup DecoderCalls

ParseNext == CallPatParse \/ CallPmtParse \/ CallTsPacketNew

ParseSpec == ParseInit /\ [][ParseNext]_vars

\* ------------------------------------------------------------ properties

Range(f) == { f[i] : i \in DOMAIN f }

\* The output stream: the accepted chunks in the order of the write calls.
OutputBytes == Flatten(out)

\* The 13-bit PID in bytes 1 and 2 of a packet.
PacketPid(b) == (At(b, 1) % 32) * 256 + At(b, 2)

\* The packet of the current iteration has been through lines 57-131.
Processed(k) == k < count \/ (k = count /\ pc \in {"next", "exit"})

\* C1 (A/V drop): a write call is only ever made for a packet whose PID is
\* not in av_pids as it stands after that packet's own section handling; a
\* packet whose PID is in av_pids at that moment never reaches the output.
C1_AvDrop ==
    [][out' # out =>
          /\ pc = "write"
          /\ PacketPid(buf) \notin av_pids
          /\ \E n \in 0..PacketSize : out' = Append(out, SubSeq(buf, 1, n))]_vars

\* Witness of C1: a packet on a PID of av_pids has gone through the loop
\* and was not handed to the writer.
C1_Witness ==
    /\ pc = "next"
    /\ count >= 1
    /\ PacketPid(buf) \in av_pids
    /\ count \notin Range(written)

\* C2 (order preservation), as claimed: the output is made of whole input
\* packets, each chunk bitwise identical to the packet it came from, taken
\* in increasing order of their position in the input.
C2_OrderPreservation ==
    /\ \A i \in 1..Len(out) : out[i] = input[written[i]]
    /\ \A i, j \in 1..Len(written) : i < j => written[i] < written[j]

\* C3 (framing preservation), as claimed: when drop_av returns Ok on an input
\* of whole packets none of whose PIDs is in the final av_pids, the output
\* equals the input byte for byte.
C3_FramingPreservation ==
    (/\ pc = "exit"
     /\ ret = Ok
     /\ tail = 0
     /\ \A k \in 1..Len(input) : PacketPid(input[k]) \notin av_pids)
    => OutputBytes = Flatten(input)

\* C4 (non-A/V retention), as claimed: when drop_av returns Ok, every packet
\* whose PID never entered av_pids is in the output, whole.
C4_NonAvRetention ==
    (pc = "exit" /\ ret = Ok)
    => \A k \in 1..Len(input) :
          PacketPid(input[k]) \notin av_pids
          => \E i \in 1..Len(out) : written[i] = k /\ out[i] = input[k]

\* The packet of the current iteration consumes a PMT section: it decodes,
\* passes the framing checks, carries payload_unit_start_indicator on a PID
\* other than 0 that has a buffer and that the installed PAT maps to a
\* program, and the buffer parses as a PMT.
ClosesPmt ==
    /\ pc = "body"
    /\ ~TsPacketNew(buf).panic
    /\ TsPacketNew(buf).sync_byte = SyncByte
    /\ ~TsPacketNew(buf).transport_error_indicator
    /\ TsPacketNew(buf).payload_unit_start_indicator
    /\ PacketPid(buf) # 0
    /\ PacketPid(buf) \in DOMAIN payloads
    /\ pat.some
    /\ PacketPid(buf) \in DOMAIN pat.val.program_map
    /\ PmtParse(payloads[PacketPid(buf)]).kind = "ok"

\* The PMT that the current packet consumes, and the program number the PAT
\* gives its PID.
ClosedPmt == PmtParse(payloads[PacketPid(buf)])
PatProgramNumber == pat.val.program_map[PacketPid(buf)]

\* C5 as claimed: once a PAT packet binding the PMT PID and then a PMT
\* packet declaring stream_type 0x1B on PID 0x0200 have been read, no later
\* packet on PID 0x0200 is handed to the writer.
C5_DroppedAfterPmtPacket ==
    \A i, j, k \in 1..Len(input) :
        (i < j /\ j < k /\ input[i] = PatPacket /\ input[j] = PmtPacketA
         /\ input[k] = VideoPacket)
        => k \notin Range(written)

\* C5 amended: a PMT section takes effect when a later packet with
\* payload_unit_start_indicator on its PID consumes it under an installed
\* PAT that binds the PID to the PMT's program number: if the loop goes on,
\* every ES entry with stream_type 0x0F, 0x02 or 0x1B whose PID is not yet
\* in nonav_pids and is not declared with another stream_type earlier in the
\* same PMT is then in av_pids; from that packet on no packet on such a PID
\* is handed to the writer; the packets read before it are not affected, so
\* the three-packet stream PAT, PMT, video has all three packets handed to
\* the writer.
C5_ClassifiedAtClose ==
    (ClosesPmt /\ ClosedPmt.program_number = PatProgramNumber /\ pc' = "write")
    => \A e \in 1..Len(ClosedPmt.es_info) :
          LET es == ClosedPmt.es_info[e] IN
          (/\ es.stream_type \in {15, 2, 27}
           /\ es.elementary_pid \notin nonav_pids
           /\ \A d \in 1..(e - 1) :
                 ClosedPmt.es_info[d].elementary_pid = es.elementary_pid
                 => ClosedPmt.es_info[d].stream_type \in {15, 2, 27})
          => es.elementary_pid \in av_pids'

C5_WrittenBeforeClassified ==
    /\ DOMAIN avSince = av_pids
    /\ \A i \in 1..Len(written) :
          PacketPid(input[written[i]]) \in av_pids
          => written[i] < avSince[PacketPid(input[written[i]])]
    /\ \A k \in 1..Len(input) :
          (Processed(k) /\ PacketPid(input[k]) \in av_pids
           /\ avSince[PacketPid(input[k])] <= k)
          => k \notin Range(written)

C5_ThreePacketStream ==
    (input = << PatPacket, PmtPacketA, VideoPacket >> /\ pc = "exit" /\ ret = Ok)
    => written = << 1, 2, 3 >>

C5_DroppedAfterPmtConsumed ==
    /\ [][C5_ClassifiedAtClose]_vars
    /\ [](C5_WrittenBeforeClassified /\ C5_ThreePacketStream)

\* Witness of C5: a video packet read after the packet that consumed the PMT
\* and put PID 0x0200 into av_pids was not handed to the writer.
C5_Witness ==
    /\ pc = "next"
    /\ count >= 1
    /\ input[count] = VideoPacket
    /\ VideoPid \in av_pids
    /\ avSince[VideoPid] < count
    /\ count \notin Range(written)

\* C6 (sticky classification): av_pids and nonav_pids are disjoint in every
\* state, and no step removes a PID from either set.
C6_Sticky ==
    /\ [](av_pids \cap nonav_pids = {})
    /\ [][av_pids \subseteq av_pids' /\ nonav_pids \subseteq nonav_pids']_vars

\* Witness of C6: PID 0x0200 is in av_pids and PID 0x0300 in nonav_pids after
\* a PMT that declares them the other way round (0x06 on 0x0200, 0x0F on
\* 0x0300) was consumed under an installed PAT.
C6_Witness ==
    /\ VideoPid \in av_pids
    /\ DataPid \in nonav_pids
    /\ pc = "write"
    /\ \E j \in 1..(count - 1) :
          /\ input[j] = PmtPacketB
          /\ avSince[VideoPid] <= j
          /\ PacketPid(input[count]) = PmtPid
          /\ \A k \in (j + 1)..(count - 1) : PacketPid(input[k]) # PmtPid

\* C7 (packet granularity), as claimed: the number of bytes the writer has
\* accepted is a multiple of 188 in every state.
C7_PacketGranularity == Len(OutputBytes) % PacketSize = 0

\* sync_byte != 0x47 or transport_error_indicator set, read off the bytes.
FramingError(b) == At(b, 0) # SyncByte \/ At(b, 1) >= 128

\* C8 (framing errors), as claimed: once the loop body has run on a packet
\* with a wrong sync byte or with transport_error_indicator set, drop_av has
\* returned an error, that packet is the last one read and it was not
\* handed to the writer.
C8_FramingErrorFatal ==
    \A k \in 1..Len(input) :
        (FramingError(input[k]) /\ (k < count \/ pc # "body"))
        => /\ pc = "exit"
           /\ ret.kind = "Err"
           /\ k = count
           /\ k \notin Range(written)

\* C9 (inconsistent PMT): when the current packet consumes a section that
\* parses as a PMT whose program_number differs from the one the PAT gives
\* its PID, that step ends drop_av with an error, leaves av_pids and
\* nonav_pids as they were and writes nothing; the packet is never in the
\* output.
C9_InconsistentStep ==
    (ClosesPmt /\ ClosedPmt.program_number # PatProgramNumber)
    => /\ pc' = "exit"
       /\ ret'.kind = "Err"
       /\ ret'.error = "Custom"
       /\ av_pids' = av_pids
       /\ nonav_pids' = nonav_pids
       /\ out' = out

C9_InconsistentExit ==
    (pc = "exit" /\ ret.kind = "Err" /\ ret.what = "Inconsistent program_number")
    => count \notin Range(written)

C9_InconsistentPmt ==
    /\ [][C9_InconsistentStep]_vars
    /\ []C9_InconsistentExit

\* Witness of C9: drop_av has failed on a PMT whose program_number is not the
\* PAT's, with an ES entry of that PMT (0x1B on PID 0x0200) unclassified.
C9_Witness ==
    /\ pc = "exit"
    /\ ret.kind = "Err"
    /\ ret.what = "Inconsistent program_number"
    /\ \E j \in 1..(count - 1) : input[j] = PmtPacket2
    /\ VideoPid \notin av_pids

\* C10 (clean termination at a short tail): the items yielded are exactly
\* the whole packets of the source, in order; at end of file, with any
\* number of residual bytes below 188, the sequence ends without an error
\* item, drop_av returns Ok and floor(n / 188) items were yielded for the n
\* bytes of the source; and drop_av terminates.
C10_Framing ==
    /\ count = Len(input)
    /\ pc \in {"body", "write"} => buf = input[count]
    /\ eof => /\ pc = "exit"
              /\ ret = Ok
              /\ tail < PacketSize
              /\ count = (PacketSize * Len(input) + tail) \div PacketSize

C10_CleanTermination == []C10_Framing /\ <>(pc = "exit")

\* Witness of C10: the source ended inside a packet after whole packets were
\* yielded, and drop_av returned Ok.
C10_Witness ==
    /\ eof
    /\ tail > 0
    /\ count >= 1
    /\ pc = "exit"
    /\ ret = Ok

\* The (pid, program_number) pairs of a program_map, and those of the
\* encoded entries whose program_number is not 0.
ProgramPairs(program_map) == { << pid, program_map[pid] >> : pid \in DOMAIN program_map }
EncodedPairs(programs) ==
    { << programs[i].pid, programs[i].program_number >> :
        i \in { j \in 1..Len(programs) : programs[j].program_number # 0 } }

\* C11 (PAT round trip), as claimed: ProgramAssociationTable::parse of a
\* well-formed PAT section returns a program_map that holds exactly the
\* (pid, program_number) pairs of the encoded entries whose program_number is
\* not 0: nothing of the CRC or of the bytes after the section is in it.
C11_PatRoundTrip ==
    (call.fn = "PatParse" /\ call.returned)
    => /\ call.result.kind = "ok"
       /\ ProgramPairs(call.result.program_map) = EncodedPairs(call.of)

\* C12 (PMT round trip): ProgramMapTable::parse of a well-formed PMT section
\* returns es_info holding exactly the encoded ES entries, in declaration
\* order, each with its stream_type, its 13-bit elementary_pid and a
\* descriptor of exactly es_info_length bytes; nothing of the CRC or of the
\* bytes after the section is read as an entry.
C12_PmtRoundTrip ==
    (call.fn = "PmtParse" /\ call.returned)
    => /\ call.result.kind = "ok"
       /\ call.result.es_info = call.of.es
       /\ call.result.program_info = call.of.program_info

\* Witness of C12: the parser has returned two ES entries, the first with
\* descriptors, of a section that follows program_info descriptors and a
\* pointer_field that is not 0.
C12_Witness ==
    /\ call.fn = "PmtParse"
    /\ call.returned
    /\ call.result.kind = "ok"
    /\ Len(call.result.es_info) = 2
    /\ call.result.es_info[1].descriptor # << >>
    /\ call.of.program_info # << >>
    /\ At(call.arg, 0) # 0

\* C13 (the decoder never fails), as claimed: TsPacket::new returns a decoded
\* packet for every 188-byte buffer, whatever its adaptation_field_control,
\* adaptation_field_length, flags, sub-field lengths and stuffing.
C13_DecoderNeverFails ==
    (call.fn = "TsPacketNew" /\ call.returned) => ~call.result.panic

\* The packet of the current iteration closes the buffer of its PID: it
\* decodes, passes the framing checks and carries
\* payload_unit_start_indicator on a PID that has a buffer.
ClosesBuffer ==
    /\ pc = "body"
    /\ ~TsPacketNew(buf).panic
    /\ TsPacketNew(buf).sync_byte = SyncByte
    /\ ~TsPacketNew(buf).transport_error_indicator
    /\ TsPacketNew(buf).payload_unit_start_indicator
    /\ PacketPid(buf) \in DOMAIN payloads

\* The buffer is handed to the PAT parser; to the PMT parser.
HandedToPatParser == ClosesBuffer /\ PacketPid(buf) = 0
HandedToPmtParser ==
    /\ ClosesBuffer
    /\ PacketPid(buf) # 0
    /\ pat.some
    /\ PacketPid(buf) \in DOMAIN pat.val.program_map

\* The buffer that is closed; its table_id and section syntax indicator
\* after the pointer_field and the bytes it skips.
ClosedBuffer == payloads[PacketPid(buf)]
ClosedTableId == At(ClosedBuffer, 1 + At(ClosedBuffer, 0))
ClosedSyntaxIndicator == Bit(At(ClosedBuffer, 2 + At(ClosedBuffer, 0)), 7)

\* The step ends drop_av with the parse error and changes nothing else.
AbortsWith(error) ==
    /\ pc' = "exit"
    /\ ret' = Err("PsiParseError", error)
    /\ out' = out
    /\ pat' = pat
    /\ av_pids' = av_pids
    /\ nonav_pids' = nonav_pids

\* C14 (PSI parse errors): on a buffer handed to it, whose table_id is the
\* byte after the pointer_field and the bytes it skips,
\* ProgramAssociationTable::parse fails with IncorrectTableId{0x00, actual}
\* when table_id is not 0x00 and ProgramMapTable::parse with
\* IncorrectTableId{0x02, actual} when it is not 0x02, whatever the syntax
\* indicator; with the right table_id and bit 7 of the next byte clear both
\* fail with IncorrectSectionSyntaxIndicator; and the step of drop_av that
\* handed the buffer over ends drop_av with that error.
C14_PatStep ==
    HandedToPatParser
    => /\ ClosedTableId # 0
          => /\ PatParse(ClosedBuffer) = IncorrectTableId(0, ClosedTableId)
             /\ AbortsWith("IncorrectTableId")
       /\ (ClosedTableId = 0 /\ ~ClosedSyntaxIndicator)
          => /\ PatParse(ClosedBuffer) = IncorrectSectionSyntaxIndicator
             /\ AbortsWith("IncorrectSectionSyntaxIndicator")

C14_PmtStep ==
    HandedToPmtParser
    => /\ ClosedTableId # 2
          => /\ PmtParse(ClosedBuffer) = IncorrectTableId(2, ClosedTableId)
             /\ AbortsWith("IncorrectTableId")
       /\ (ClosedTableId = 2 /\ ~ClosedSyntaxIndicator)
          => /\ PmtParse(ClosedBuffer) = IncorrectSectionSyntaxIndicator
             /\ AbortsWith("IncorrectSectionSyntaxIndicator")

C14_PsiParseErrors == [][C14_PatStep /\ C14_PmtStep]_vars

\* Witness of C14: drop_av has ended with IncorrectTableId on the packet that
\* closed a buffer of the PMT PID, bound by the installed PAT, that holds a
\* section with table_id 0x00 and the syntax indicator clear.
C14_Witness ==
    /\ pc = "exit"
    /\ ret = Err("PsiParseError", "IncorrectTableId")
    /\ pat.some
    /\ PacketPid(buf) = PmtPid
    /\ PmtPid \in DOMAIN pat.val.program_map
    /\ PmtPid \in DOMAIN payloads
    /\ payloads[PmtPid] = SliceFrom(PmtWrongBoth, 4)

\* The four kinds of error of the taxonomy: an I/O error of the reader or of
\* the writer, a PSI parse error, a framing error, a PMT whose program_number
\* is not the PAT's.
TaxonomyErrors ==
    { Err("Io", "read"), Err("Io", "write"),
      Err("PsiParseError", "IncorrectTableId"),
      Err("PsiParseError", "IncorrectSectionSyntaxIndicator"),
      Err("Custom", "sync_byte failed"),
      Err("Custom", "transport_error_indicator is set"),
      Err("Custom", "Inconsistent program_number") }

\* C15 (error taxonomy), as claimed: every error drop_av returns is of one of
\* the four kinds; a packet without data_bytes that carries
\* payload_unit_start_indicator does not make it fail.
C15_ErrorTaxonomy ==
    (pc = "exit" /\ ret.kind = "Err") => ret \in TaxonomyErrors

\* Every packet on pid read before the current one was read before the first
\* packet on PID 0x0000 (the first PAT packet) of the stream.
ReceivedBeforeFirstPat(pid) ==
    \E f \in 1..Len(input) :
        /\ PacketPid(input[f]) = 0
        /\ \A k \in 1..(f - 1) : PacketPid(input[k]) # 0
        /\ \A k \in 1..(count - 1) : PacketPid(input[k]) = pid => k < f

\* C16 (a PMT received before any PAT is ignored), as claimed: when the
\* current packet closes a buffer, on a PID other than 0, all of whose
\* packets were read before the first PAT packet, the buffer is not parsed:
\* the step adds no PID to av_pids or nonav_pids and does not end drop_av
\* with a parse error or an inconsistent program_number.
C16_PmtBeforePatIgnored ==
    [][(/\ ClosesBuffer
        /\ PacketPid(buf) # 0
        /\ ReceivedBeforeFirstPat(PacketPid(buf)))
       => /\ av_pids' = av_pids
          /\ nonav_pids' = nonav_pids
          /\ \/ pc' = "write"
             \/ ret' = Err("Custom", "payload_unit_start_indicator is set, but no data_bytes")
      ]_vars

\* payload_unit_start_indicator and data_bytes of a packet that decodes.
PacketPusi(b) == TsPacketNew(b).payload_unit_start_indicator
PacketData(b) ==
    IF TsPacketNew(b).data_bytes.some THEN TsPacketNew(b).data_bytes.val ELSE << >>

\* The data_bytes of the packets j..k of the input that are on pid, in
\* arrival order.
PidData(pid, j, k) ==
    Flatten([i \in 1..(k + 1 - j) |->
                IF PacketPid(input[j + i - 1]) = pid
                THEN PacketData(input[j + i - 1]) ELSE << >>])

\* Packet j is the last of the packets 1..k with
\* payload_unit_start_indicator on pid.
LastStart(pid, j, k) ==
    /\ PacketPid(input[j]) = pid
    /\ PacketPusi(input[j])
    /\ \A i \in (j + 1)..k : ~(PacketPid(input[i]) = pid /\ PacketPusi(input[i]))

\* C17 (reassembly state machine), as claimed: when the loop body starts on
\* a packet, each PID has a buffer exactly if a packet with
\* payload_unit_start_indicator on it was read before; the buffer then is
\* the data_bytes of the last such packet followed, in arrival order, by the
\* data_bytes of the packets on that PID read since, none of which carries
\* payload_unit_start_indicator.  A packet without
\* payload_unit_start_indicator on a PID without a buffer creates none.
C17_Reassembly ==
    pc = "body"
    => \A pid \in DOMAIN payloads :
          \E j \in 1..(count - 1) :
              /\ LastStart(pid, j, count - 1)
              /\ payloads[pid] = PidData(pid, j, count - 1)

====
